---- MODULE Spec2Model ----
(***************************************************************************)
(* Model of cmd/optimize/events.go: the `fsoc optimize events` and         *)
(* `fsoc optimize recommendations` command functions (listEvents,          *)
(* listRecommendations), the entity lookup (listOptimizations), the        *)
(* blocker query (getOptimizationBlockerData) and the follow loop          *)
(* (the select loop of listEvents with followDatasetAndPrint running in a  *)
(* background goroutine).                                                  *)
(*                                                                         *)
(* The query client (uql.ClientV1) and the operating system's signals are  *)
(* the environment: every response the client can give is a                *)
(* nondeterministic choice.  Every call on the client is recorded in       *)
(* `calls`, every call on the output package in `output`.                  *)
(***************************************************************************)
EXTENDS Naturals, Integers, Sequences, FiniteSets, TLC

(***************************************************************************)
(* Bounds of the model.                                                    *)
(***************************************************************************)
\* pages a main query chain can have (a page carries "next" only below it)
MaxPages == 3
\* rows of one nested dataset
MaxRows == 2
\* pages of the entity lookup
MaxEntityPages == 3
\* identifiers on one entity page
MaxIds == 1
\* follow polls issued in one run
MaxPolls == 3
\* largest follow interval, in ticks
MaxInterval == 1
\* the attributes of a start event besides its key attributes
MaxAttrs == 3
\* calls of the command function on one command object
MaxRuns == 2

(***************************************************************************)
(* Program constants.                                                      *)
(***************************************************************************)
\* the default of --count in the events command: no cap
NoCount == -1
\* the largest supported cap
MaxCount == 1000
\* capacity of followChan and of interrupt
ChanCap == 1

Counts == {NoCount, 1, MaxCount, MaxCount + 1}
Strs == {"", "v"}

Min(a, b) == IF a < b THEN a ELSE b

(***************************************************************************)
(* Datasets.  A *uql.DataSet is known by its handle h (0: the nil          *)
(* pointer), the number n of its rows, whether Links has "next", and       *)
(* whether one of its rows deviates from {attributes, timestamp}.          *)
(* Row i of the dataset with handle h is <<h, i>>: the server never        *)
(* repeats a row.                                                          *)
(***************************************************************************)
NilDataSet == [h |-> 0, n |-> 0, next |-> FALSE, bad |-> FALSE]

\* a reader that takes no dataset from a response that reports errors
DataSetDroppedOnErrors(resp, h) ==
    IF resp.kind = "nilDataSet" \/ resp.hasErrors THEN NilDataSet
    ELSE [h |-> h, n |-> resp.n, next |-> resp.next, bad |-> resp.kind = "badRow"]

\* Data[0][0].(*uql.DataSet) of a response whose first cell is a dataset
DataSetOf(resp, h) ==
    IF resp.kind = "nilDataSet" THEN NilDataSet
    ELSE [h |-> h, n |-> resp.n, next |-> resp.next, bad |-> resp.kind = "badRow"]

\* The nested-dataset responses of the client to a query or a continuation.
\* kind: clientErr (err != nil), nilMain (Main() == nil), noRows (len(Data) < 1),
\* noCols (len(Data[0]) < 1), notDataSet (first cell of another type),
\* nilDataSet (first cell a nil *uql.DataSet), badRow (a dataset with a row of
\* the wrong shape), ok (a dataset of n well-formed rows).
\* col: of a badRow, the column that deviates: 0 (row[0] is missing or not
\* uql.ComplexData) or 1 (row[1] is missing or not a time.Time).
Responses(canNext) ==
    { [kind |-> "clientErr", n |-> 0, col |-> 0, next |-> FALSE, hasErrors |-> FALSE] }
    \cup { [kind |-> k, n |-> 0, col |-> 0, next |-> FALSE, hasErrors |-> e] :
             k \in {"nilMain", "noRows", "noCols", "notDataSet", "nilDataSet"},
             e \in BOOLEAN }
    \cup { [kind |-> "badRow", n |-> 1, col |-> c, next |-> FALSE, hasErrors |-> e] :
             c \in {0, 1}, e \in BOOLEAN }
    \cup { [kind |-> "ok", n |-> m, col |-> 0, next |-> x, hasErrors |-> e] :
             m \in 0..MaxRows,
             x \in (IF canNext THEN BOOLEAN ELSE {FALSE}),
             e \in BOOLEAN }

\* extractEventsData: the rows of a dataset in row order; a nil dataset has
\* none; a row of the wrong shape fails an unchecked type assertion (a panic).
extractEventsData(dataset) ==
    IF dataset = NilDataSet THEN [panic |-> FALSE, rows |-> <<>>]
    ELSE IF dataset.bad THEN [panic |-> TRUE, rows |-> <<>>]
    ELSE [panic |-> FALSE, rows |-> [i \in 1..dataset.n |-> <<dataset.h, i>>]]

VARIABLES
    cmd,          \* "events" | "recommendations": the command function that runs
    run,          \* how many times the command function was called on the flags
    flags,        \* the flags struct the command function reads
    pc,           \* where the command function (the foreground) stands
    ret,          \* what the command function returned: [tag, page]
    tempVals,     \* the template values: [events, filter, limits]
    results,      \* listOptimizations: the identifiers gathered so far
    mainDataSet,  \* listOptimizations: the entity page last fetched
    eventRows,    \* the rows gathered so far
    data_set,     \* the nested dataset last fetched
    page,         \* the page counter of the "next" loop
    pages,        \* the responses to the main query and its "next" calls, in order
    served,       \* datasets the server has handed out (the last handle)
    calls,        \* every ExecuteQuery / ContinueQuery issued, in order
    output,       \* every PrintCmdStatus / PrintCmdOutput(Custom), in order
    logged,       \* the kinds of log lines written
    interrupt,    \* pending signals in the interrupt channel (capacity 1)
    followChan,   \* the results pending in followChan (capacity 1)
    tasks,        \* the background goroutines alive
    polls,        \* every follow poll: how it was issued and what it returned
    entityPages,  \* the responses to the entity query and its "next" calls, in order
    startedPage,  \* the response to the optimization_started query
    blockerRows,  \* the lookup built from it: key |-> attribute names kept
    startedAttrs, \* server data: the attribute bag of the start events
    badKey        \* server data: the recommendation row without string key
                  \* attributes (0: none)

vars == <<cmd, run, flags, pc, ret, tempVals, results, mainDataSet, eventRows, data_set,
          page, pages, served, calls, output, logged, interrupt, followChan, tasks, polls,
          entityPages, startedPage, blockerRows, startedAttrs, badKey>>

inputVars == <<cmd, run, flags, startedAttrs, badKey>>
resolverVars == <<results, mainDataSet>>
rowVars == <<eventRows, data_set, page>>
fetchVars == <<eventRows, data_set, page, pages>>
followVars == <<interrupt, followChan, tasks, polls>>
joinVars == <<startedPage, blockerRows>>

Running == [tag |-> "running", page |-> 0]
Returned(tag) == [tag |-> tag, page |-> 0]
\* an error of the "next" loop that does not name its page
ReturnedWithoutPage(tag, p) == [tag |-> tag, page |-> 0]

\* an error of the "next" loop: fmt.Errorf("page %v ...", page, ...)
ReturnedAt(tag, p) == [tag |-> tag, page |-> p]

(***************************************************************************)
(* Attribute names.  A string is the sequence of its pieces: the pieces    *)
(* are the longest runs of characters that the names below share or differ *)
(* by, so that one name is a substring or a prefix of another exactly when *)
(* its pieces are a run of the other's.                                    *)
(***************************************************************************)
\* strings.HasPrefix
HasPrefix(str, prefix) ==
    Len(prefix) <= Len(str) /\ SubSeq(str, 1, Len(prefix)) = prefix

\* strings.Contains
Contains(str, substr) ==
    \E i \in 0..(Len(str) - Len(substr)) : SubSeq(str, i + 1, i + Len(substr)) = substr

\* strings.Split
RECURSIVE Split(_, _)
Split(str, sep) ==
    IF \A i \in DOMAIN str : str[i] # sep
    THEN <<str>>
    ELSE LET i == CHOOSE k \in DOMAIN str :
                      str[k] = sep /\ \A j \in 1..(k - 1) : str[j] # sep
         IN  <<SubSeq(str, 1, i - 1)>> \o Split(SubSeq(str, i + 1, Len(str)), sep)

\* strings.Join
RECURSIVE Join(_, _)
Join(elems, sep) ==
    IF elems = <<>> THEN <<>>
    ELSE IF Len(elems) = 1 THEN elems[1]
    ELSE elems[1] \o <<sep>> \o Join(Tail(elems), sep)

IgnoredBlockers == <<"optimize", ".", "ignored_blockers">>
Principal == <<"principal">>

\* the attribute names a start event may carry besides its key attributes
AttrCpuReason == IgnoredBlockers \o <<".", "cpu", ".", "reason">>
AttrCpuLimitReason == IgnoredBlockers \o <<".", "cpu", "-limit", ".", "reason">>
AttrCpuLimitTimestamp == IgnoredBlockers \o <<".", "cpu", "-limit", ".", "timestamp">>
AttrCpuLimitPrincipal == IgnoredBlockers \o <<".", "cpu", "-limit", ".", "principal">>
AttrState == <<"optimize", ".", "state">>

AttrNames ==
    {AttrCpuReason, AttrCpuLimitReason, AttrCpuLimitTimestamp, AttrCpuLimitPrincipal,
     AttrState}

\* the attribute bags of the start events of one response
AttrBags == { bag \in SUBSET AttrNames : Cardinality(bag) <= MaxAttrs }

\* the orders in which a range over a Go map may visit its keys
Orders(keys) ==
    { o \in [1..Cardinality(keys) -> keys] : \A k \in keys : \E i \in DOMAIN o : o[i] = k }

(***************************************************************************)
(* Init: the state when cobra calls RunE.  The recommendations command     *)
(* registers neither --follow nor --follow-interval and never reads them.  *)
(* cobra rejects --follow together with --count, and the follow loop reads *)
(* none of the filter flags: the runs that follow take the optimizer id.   *)
(***************************************************************************)
\* the event types read by default, and the progress events
defaultEvents ==
    << "optimization_baselined", "optimization_started", "optimization_ended",
       "stage_started", "stage_ended", "experiment_started", "experiment_ended",
       "experiment_deployment_started", "experiment_deployment_completed",
       "experiment_measurement_started", "experiment_measurement_completed",
       "experiment_described", "recommendation_identified",
       "recommendation_verified", "recommendation_invalidated" >>

progressEvents == << "optimization_progress", "stage_progress", "experiment_progress" >>

\* --solution-name is hidden and keeps its default
SolutionName == "optimize"

\* what flags.events holds when RunE is first called: the default, a list
\* given with --events, or nothing (the recommendations command has no
\* such flag)
EventLists == { defaultEvents, <<"stage_started">>, <<>> }

\* the template values before anything is rendered
NoTemplateValues == [events |-> "", filter |-> <<>>, limits |-> NoCount]

Flags ==
    [clusterId : Strs, namespace : Strs, workloadName : Strs, optimizerId : Strs,
     count : Counts, follow : BOOLEAN, followInterval : 0..MaxInterval,
     includeProgress : BOOLEAN, events : EventLists]

FollowFlags ==
    { f \in Flags : /\ f.follow
                    /\ f.count = NoCount
                    /\ f.optimizerId = "v"
                    /\ f.clusterId = "" /\ f.namespace = "" /\ f.workloadName = "" }

FetchFlags == { f \in Flags : ~f.follow /\ f.followInterval = 0 }

\* MarkFlagsMutuallyExclusive: cobra calls RunE only when no two flags of a
\* group were given (a string flag is given when it is not empty, --count
\* when it is not -1)
ValidateFlagGroups(f) ==
    /\ ~(f.optimizerId # "" /\ f.clusterId # "")
    /\ ~(f.optimizerId # "" /\ f.namespace # "")
    /\ ~(f.optimizerId # "" /\ f.workloadName # "")
    /\ ~(f.follow /\ f.count # NoCount)
    /\ ~(f.includeProgress /\ f.events # defaultEvents)

\* the state in which RunE starts, whatever its inputs
Start ==
    /\ run = 1
    /\ pc = "start"
    /\ ret = Running
    /\ tempVals = NoTemplateValues
    /\ results = <<>>
    /\ mainDataSet = [h |-> 0, next |-> FALSE]
    /\ eventRows = <<>>
    /\ data_set = NilDataSet
    /\ page = 0
    /\ pages = <<>>
    /\ served = 0
    /\ calls = <<>>
    /\ output = <<>>
    /\ logged = {}
    /\ interrupt = 0
    /\ followChan = <<>>
    /\ tasks = <<>>
    /\ polls = <<>>
    /\ entityPages = <<>>
    /\ startedPage = [kind |-> "", h |-> 0, n |-> 0, next |-> FALSE, attrs |-> {}]
    /\ blockerRows = <<>>

\* every command line of the two commands; the start events carry one
\* attribute bag and every recommendation row has its key attributes
Init ==
    /\ cmd \in {"events", "recommendations"}
    /\ flags \in { f \in (IF cmd = "events" THEN FetchFlags \cup FollowFlags ELSE FetchFlags) :
                      /\ ValidateFlagGroups(f)
                      /\ ~f.includeProgress
                      /\ f.events = (IF cmd = "events" THEN defaultEvents ELSE <<>>) }
    /\ startedAttrs = {AttrCpuLimitReason, AttrState}
    /\ badKey = 0
    /\ Start

\* the recommendations command as its example runs it, over every attribute
\* bag of the start events and every place of a row without string keys
JoinInit ==
    /\ cmd = "recommendations"
    /\ flags = [clusterId |-> "", namespace |-> "", workloadName |-> "", optimizerId |-> "v",
                count |-> 1, follow |-> FALSE, followInterval |-> 0,
                includeProgress |-> FALSE, events |-> <<>>]
    /\ startedAttrs \in AttrBags
    /\ badKey \in 0..MaxRows
    /\ Start


(***************************************************************************)
(* Helpers of the command functions.                                       *)
(***************************************************************************)
Return(r) == pc' = "done" /\ ret' = r

Eq(attr, val) == [attr |-> attr, op |-> "=", val |-> val, ids |-> <<>>]
In(attr, ids) == [attr |-> attr, op |-> "IN", val |-> "", ids |-> ids]

ExecuteCall(query, filter, limits) ==
    [op |-> "ExecuteQuery", query |-> query, link |-> "", on |-> 0,
     events |-> "", filter |-> filter, limits |-> limits]
\* a continuation that is made on the first handle the server handed out
ContinueCallOnFirst(query, link, h) ==
    [op |-> "ContinueQuery", query |-> query, link |-> link, on |-> 1,
     events |-> "", filter |-> <<>>, limits |-> NoCount]

ContinueCall(query, link, h) ==
    [op |-> "ContinueQuery", query |-> query, link |-> link, on |-> h,
     events |-> "", filter |-> <<>>, limits |-> NoCount]

\* what the output package is handed: a status line, the result set with its
\* total, or a batch of followed rows
Status(text) == [kind |-> "status", text |-> text, items |-> <<>>, total |-> 0]
Items(rows) == [kind |-> "items", text |-> "", items |-> rows, total |-> Len(rows)]
FollowItems(rows) == [kind |-> "follow", text |-> "", items |-> rows, total |-> Len(rows)]

\* resp.HasErrors(): the errors are logged and nothing else happens
LogErrors(resp, log) == IF resp.hasErrors THEN log \cup {"queryErrors"} ELSE log

\* the identifier of row i of entity page h
IdOf(h, i) == "id" \o ToString(h) \o "." \o ToString(i)

(***************************************************************************)
(* The Filter Compiler of listEvents and listRecommendations.              *)
(***************************************************************************)
\* a filter compiler that looks the optimizer ids up whenever a namespace or
\* a workload name is given
NeedsResolverDespiteId == flags.namespace # "" \/ flags.workloadName # ""

\* the else-if of the filter list: the optimizer ids are looked up
NeedsResolver ==
    flags.optimizerId = "" /\ (flags.namespace # "" \/ flags.workloadName # "")

\* filterList before the lookup: the cluster clause, then the optimizer clause
FilterHead ==
    (IF flags.clusterId # "" THEN <<Eq("k8s.cluster.id", flags.clusterId)>> ELSE <<>>)
    \o (IF flags.optimizerId # ""
        THEN <<Eq("optimize.optimization.optimizer_id", flags.optimizerId)>>
        ELSE <<>>)

\* the count check and the rendering of the query, after the filter is built
CheckCount(vals, filterList) ==
    IF flags.count # NoCount /\ flags.count > MaxCount
    THEN /\ Return(Returned("InvalidArgument"))
         /\ tempVals' = [vals EXCEPT !.filter = filterList]
    ELSE /\ pc' = "mainExec"
         /\ ret' = ret
         /\ tempVals' = [vals EXCEPT !.filter = filterList, !.limits = flags.count]

\* if flags.includeProgress: the progress events are appended to flags.events,
\* in the flags struct the closure holds
AppendProgress(f) ==
    IF f.includeProgress THEN [f EXCEPT !.events = @ \o progressEvents] ELSE f

\* the names made fully qualified with the solution name
FullyQualified(events) == [i \in DOMAIN events |-> SolutionName \o ":" \o events[i]]

\* strings.Join on texts
RECURSIVE JoinText(_, _)
JoinText(elems, sep) ==
    IF elems = <<>> THEN ""
    ELSE IF Len(elems) = 1 THEN elems[1]
    ELSE elems[1] \o sep \o JoinText(Tail(elems), sep)

\* tempVals.Events of the events template
EventsText(events) == JoinText(FullyQualified(events), ",\n\t\t")

\* the command function up to its first call on the query client
Begin ==
    /\ pc = "start"
    /\ flags' = (IF cmd = "events" THEN AppendProgress(flags) ELSE flags)
    /\ LET vals == IF cmd = "events"
                    THEN [tempVals EXCEPT !.events = EventsText(flags'.events)]
                    ELSE tempVals
       IN  IF NeedsResolver
           THEN pc' = "entityExec" /\ ret' = ret /\ tempVals' = vals
           ELSE CheckCount(vals, FilterHead)
    /\ UNCHANGED <<cmd, run, startedAttrs, badKey, entityPages, joinVars, resolverVars, fetchVars, served, calls, output, logged,
                   followVars>>

(***************************************************************************)
(* listOptimizations, the Entity Resolver.                                 *)
(***************************************************************************)
\* an entity page: n rows, of which row badAt (0: none) has no column or no
\* string in its first column
EntityResponses(canNext) ==
    { [kind |-> "clientErr", n |-> 0, badAt |-> 0, next |-> FALSE, hasErrors |-> FALSE] }
    \cup { [kind |-> "nilMain", n |-> 0, badAt |-> 0, next |-> FALSE, hasErrors |-> e] :
             e \in BOOLEAN }
    \cup { [kind |-> "ok", n |-> m, badAt |-> b, next |-> x, hasErrors |-> e] :
             m \in 0..MaxIds, b \in 0..MaxIds,
             x \in (IF canNext THEN BOOLEAN ELSE {FALSE}), e \in BOOLEAN }

\* the filter of the entity query
OptimizationFilter ==
    (IF flags.namespace # "" THEN <<Eq("k8s.namespace.name", flags.namespace)>> ELSE <<>>)
    \o (IF flags.workloadName # "" THEN <<Eq("k8s.workload.name", flags.workloadName)>> ELSE <<>>)
    \o (IF flags.clusterId # "" THEN <<Eq("k8s.cluster.id", flags.clusterId)>> ELSE <<>>)

\* what entityPages keeps of a response: its kind and, of main data, the
\* handle, the number of rows, the first bad row and the "next" link
EntityPageOf(resp, h) ==
    [kind |-> resp.kind, h |-> (IF resp.kind = "ok" THEN h ELSE 0),
     n |-> resp.n, badAt |-> resp.badAt, next |-> resp.next]

\* a resolver that drops the identifiers of the pages it reads
IdsOfNone(resp, h) == <<>>

\* the rows of an entity page read in order, up to the first bad one
IdsOf(resp, h) ==
    [i \in 1..(IF resp.badAt > 0 THEN resp.badAt - 1 ELSE resp.n) |-> IdOf(h, i)]

\* a caller that goes on to the main query with an empty identifier list
NoEntitiesIgnored(ids) == FALSE

\* if len(optimizerIds) < 1
NoEntities(ids) == Len(ids) < 1

\* the caller's handling of what listOptimizations returned
AfterResolve(ids, failed) ==
    IF failed
    THEN Return(Returned("listOptimizations")) /\ UNCHANGED <<tempVals, output>>
    ELSE IF NoEntities(ids)
    THEN /\ output' = Append(output, Status("noEntities"))
         /\ Return(Returned("nil"))
         /\ UNCHANGED tempVals
    ELSE /\ CheckCount(tempVals, FilterHead
                                 \o <<In("optimize.optimization.optimizer_id", ids)>>)
         /\ UNCHANGED output

\* one entity page handled: the loop goes on, or listOptimizations returns
EntityPage(resp, h) ==
    IF resp.kind = "clientErr"
    THEN AfterResolve(results, TRUE) /\ UNCHANGED <<resolverVars, logged>>
    ELSE /\ logged' = (IF resp.kind = "nilMain" /\ pc = "entityNext"
                       THEN LogErrors(resp, logged) \cup {"nilMain"}
                       ELSE LogErrors(resp, logged))
         /\ IF resp.kind = "nilMain"
            THEN AfterResolve(results, FALSE) /\ UNCHANGED resolverVars
            ELSE /\ results' = results \o IdsOf(resp, h)
                 /\ mainDataSet' = [h |-> h, next |-> resp.next]
                 /\ IF resp.badAt > 0
                    THEN AfterResolve(results', TRUE)
                    ELSE IF resp.next
                    THEN pc' = "entityNext" /\ UNCHANGED <<ret, tempVals, output>>
                    ELSE AfterResolve(results', FALSE)

\* listOptimizations from its start to the end of its first page
listOptimizations_Execute ==
    /\ pc = "entityExec"
    /\ IF flags.namespace = "" /\ flags.workloadName = ""
       THEN /\ AfterResolve(<<>>, TRUE)
            /\ UNCHANGED <<resolverVars, logged, served, calls, entityPages>>
       ELSE \E resp \in EntityResponses(1 < MaxEntityPages) :
              /\ resp.badAt <= resp.n
              /\ calls' = Append(calls, ExecuteCall("optimization", OptimizationFilter, NoCount))
              /\ served' = served + 1
              /\ entityPages' = Append(entityPages, EntityPageOf(resp, served + 1))
              /\ EntityPage(resp, served + 1)
    /\ UNCHANGED <<inputVars, joinVars, fetchVars, followVars>>

\* one turn of the "next" loop of listOptimizations
listOptimizations_Continue ==
    /\ pc = "entityNext"
    /\ \E resp \in EntityResponses(Len(calls) + 1 < MaxEntityPages) :
         /\ resp.badAt <= resp.n
         /\ calls' = Append(calls, ContinueCall("optimization", "next", mainDataSet.h))
         /\ served' = served + 1
         /\ entityPages' = Append(entityPages, EntityPageOf(resp, served + 1))
         /\ EntityPage(resp, served + 1)
    /\ UNCHANGED <<inputVars, joinVars, fetchVars, followVars>>


(***************************************************************************)
(* The main query of listEvents and listRecommendations and its "next"     *)
(* loop, the Paginator.                                                    *)
(***************************************************************************)
MainQuery == IF cmd = "events" THEN "events" ELSE "recommendations"

\* a followEventResult; `from` is the poll that produced it (0: the seed)
FollowResult(ds, err, exhausted, from) ==
    [data_set |-> ds, err |-> err, cursorExhausted |-> exhausted, from |-> from]

\* what `pages` keeps of a response: its kind and, of a dataset, the handle,
\* the number of rows and the "next" link
PageOf(resp, h) ==
    [kind |-> resp.kind,
     h |-> (IF resp.kind \in {"ok", "badRow"} THEN h ELSE 0),
     n |-> resp.n, next |-> resp.next]

\* a paginator that puts each new page in front of the rows gathered
AppendRowsInFront(rows, newRows) == newRows \o rows

\* eventRows = append(eventRows, newRows...)
AppendRows(rows, newRows) == rows \o newRows

\* a paginator that forgets to skip the "next" loop when a cap is set
FirstNextOkIgnoringCap(ds) ==
    /\ ds # NilDataSet
    /\ ds.next
    /\ ~(cmd = "events" /\ flags.follow)

\* a paginator that forgets to skip the "next" loop when follow is set
FirstNextOkIgnoringFollow(ds) ==
    /\ ds # NilDataSet
    /\ ds.next
    /\ flags.count = NoCount

\* next_ok after the first page: the link, unless a cap or follow is set
FirstNextOk(ds) ==
    /\ ds # NilDataSet
    /\ ds.next
    /\ flags.count = NoCount
    /\ ~(cmd = "events" /\ flags.follow)

\* a command function that prints the rows before the blocker query is made
AfterPaginationPrintingEarly(rows, ds) ==
    /\ output' = Append(output, Items(rows))
    /\ IF cmd = "events"
       THEN IF flags.follow /\ ds # NilDataSet
            THEN /\ pc' = "select"
                 /\ ret' = ret
                 /\ followChan' = <<FollowResult(ds, "", FALSE, 0)>>
            ELSE Return(Returned("nil")) /\ followChan' = followChan
       ELSE /\ pc' = "startedExec"
            /\ UNCHANGED <<ret, followChan>>

\* what follows the "next" loop: listEvents prints the rows and enters the
\* follow loop or returns; listRecommendations goes on to the blocker query
AfterPagination(rows, ds) ==
    IF cmd = "events"
    THEN /\ output' = Append(output, Items(rows))
         /\ IF flags.follow /\ ds # NilDataSet
            THEN /\ pc' = "select"
                 /\ ret' = ret
                 /\ followChan' = <<FollowResult(ds, "", FALSE, 0)>>
            ELSE Return(Returned("nil")) /\ followChan' = followChan
    ELSE /\ pc' = "startedExec"
         /\ UNCHANGED <<ret, output, followChan>>

\* ExecuteQuery of the main query and the handling of its first page
MainExecute ==
    /\ pc = "mainExec"
    /\ \E resp \in Responses(1 < MaxPages) :
         /\ calls' = Append(calls, [ExecuteCall(MainQuery, tempVals.filter, tempVals.limits)
                                       EXCEPT !.events = tempVals.events])
         /\ served' = served + 1
         /\ pages' = Append(pages, PageOf(resp, served + 1))
         /\ logged' = (IF resp.kind = "clientErr" THEN logged ELSE LogErrors(resp, logged))
         /\ CASE resp.kind = "clientErr" ->
                   /\ Return(Returned("ExecuteQuery"))
                   /\ UNCHANGED <<rowVars, output, followChan>>
              [] resp.kind \in {"nilMain", "noRows"} ->
                   /\ output' = Append(output, Status("noResults"))
                   /\ Return(Returned("nil"))
                   /\ UNCHANGED <<rowVars, followChan>>
              [] resp.kind = "noCols" ->
                   /\ Return(Returned("noColumns"))
                   /\ UNCHANGED <<rowVars, output, followChan>>
              [] resp.kind = "notDataSet" ->
                   /\ Return(Returned("notDataSet"))
                   /\ UNCHANGED <<rowVars, output, followChan>>
              [] OTHER ->
                   LET ds == DataSetOf(resp, served + 1)
                       ex == extractEventsData(ds)
                   IN  /\ data_set' = ds
                       /\ IF ex.panic
                          THEN /\ Return(Returned("panic"))
                               /\ UNCHANGED <<eventRows, page, output, followChan>>
                          ELSE /\ eventRows' = ex.rows
                               /\ IF FirstNextOk(ds)
                                  THEN /\ pc' = "mainNext"
                                       /\ page' = 2
                                       /\ UNCHANGED <<ret, output, followChan>>
                                  ELSE /\ AfterPagination(ex.rows, ds)
                                       /\ page' = page
    /\ UNCHANGED <<inputVars, entityPages, joinVars, tempVals, resolverVars, interrupt, tasks, polls>>

\* one turn of the "next" loop: ContinueQuery and the handling of the page
MainContinue ==
    /\ pc = "mainNext"
    /\ \E resp \in Responses(page < MaxPages) :
         /\ calls' = Append(calls, ContinueCall(MainQuery, "next", data_set.h))
         /\ served' = served + 1
         /\ pages' = Append(pages, PageOf(resp, served + 1))
         /\ logged' = (IF resp.kind = "clientErr" THEN logged
                       ELSE IF resp.kind = "nilMain" THEN LogErrors(resp, logged) \cup {"nilMain"}
                       ELSE LogErrors(resp, logged))
         /\ CASE resp.kind = "clientErr" ->
                   /\ Return(ReturnedAt("ContinueQuery", page))
                   /\ UNCHANGED <<rowVars, output, followChan>>
              [] resp.kind = "nilMain" ->
                   /\ AfterPagination(eventRows, data_set)
                   /\ UNCHANGED rowVars
              [] resp.kind = "noRows" ->
                   /\ Return(ReturnedAt("noRows", page))
                   /\ UNCHANGED <<rowVars, output, followChan>>
              [] resp.kind = "noCols" ->
                   /\ Return(ReturnedAt("noColumns", page))
                   /\ UNCHANGED <<rowVars, output, followChan>>
              [] resp.kind = "notDataSet" ->
                   /\ Return(ReturnedAt("notDataSet", page))
                   /\ UNCHANGED <<rowVars, output, followChan>>
              [] OTHER ->
                   LET ds == DataSetOf(resp, served + 1)
                       ex == extractEventsData(ds)
                   IN  /\ data_set' = ds
                       /\ IF ex.panic \/ ds = NilDataSet
                          THEN \* a bad row, or Links read through a nil pointer
                               /\ Return(ReturnedAt("panic", page))
                               /\ UNCHANGED <<eventRows, page, output, followChan>>
                          ELSE /\ eventRows' = AppendRows(eventRows, ex.rows)
                               /\ IF ds.next
                                  THEN /\ page' = page + 1
                                       /\ UNCHANGED <<pc, ret, output, followChan>>
                                  ELSE /\ AfterPagination(eventRows', ds)
                                       /\ page' = page
    /\ UNCHANGED <<inputVars, entityPages, joinVars, tempVals, resolverVars, interrupt, tasks, polls>>


(***************************************************************************)
(* getOptimizationBlockerData and the join of listRecommendations.  Start  *)
(* event j of the started dataset has the key of recommendation row j, and *)
(* every start event of one response carries the same attribute bag.       *)
(***************************************************************************)
\* what startedPage keeps of the response: PageOf and the attribute bag
StartedPageOf(resp, h, bag) ==
    [kind |-> resp.kind,
     h |-> (IF resp.kind \in {"ok", "badRow"} THEN h ELSE 0),
     n |-> resp.n, next |-> resp.next, attrs |-> bag]

\* extractStartedBlockersData reads column 0 of a row and nothing else: only
\* a row whose attributes are missing or not uql.ComplexData fails its
\* unchecked type assertion; the timestamp column is never read
StartedRowPanics(resp) == resp.kind = "badRow" /\ resp.col = 0

\* extractStartedBlockersData: one entry per row of the dataset, keeping the
\* attributes whose name starts with optimize.ignored_blockers
extractStartedBlockersData(dataset, bag) ==
    [key \in 1..dataset.n |-> { attr \in bag : HasPrefix(attr, IgnoredBlockers) }]

\* a joiner that takes an identifier from every attribute
NamesPrincipalNever(attr) == FALSE

\* strings.Contains(attr, "principal")
NamesPrincipal(attr) == Contains(attr, Principal)

\* the body of the loop over the matched entry's attributes: Blockers after attr
AddBlocker(blockers, attr) ==
    IF NamesPrincipal(attr) THEN blockers
    ELSE LET splitAttr == Split(attr, ".")
         IN  IF Len(splitAttr) > 3
             THEN LET blockerID == splitAttr[Len(splitAttr) - 1]
                  IN  IF ~Contains(Join(blockers, ","), blockerID)
                      THEN Append(blockers, blockerID)
                      ELSE blockers
             ELSE blockers

\* Blockers after the attributes were visited in the given order
RECURSIVE BlockersOf(_, _)
BlockersOf(order, blockers) ==
    IF order = <<>> THEN blockers
    ELSE BlockersOf(Tail(order), AddBlocker(blockers, Head(order)))

\* the recommendationRow of a row without a lookup entry
NoBlockers(row) ==
    [row |-> row, attrs |-> {}, blockers |-> <<>>, present |-> FALSE]

\* the Blockers lists the loop over an entry can end with: one for every
\* order in which the range visits the entry
Blockers(entry) == { BlockersOf(order, <<>>) : order \in Orders(entry) }

\* the recommendationRow of a row with a lookup entry
RecommendationRow(row, entry, blockers) ==
    [row |-> row, attrs |-> entry, blockers |-> blockers, present |-> Len(blockers) > 0]

\* recommendationRowsWithBlockers
JoinRows(rows, lookup, blockers) ==
    [i \in 1..Len(rows) |->
       IF i \in DOMAIN lookup
       THEN RecommendationRow(rows[i], lookup[i], blockers[i])
       ELSE NoBlockers(rows[i])]

\* getOptimizationBlockerData and the rest of listRecommendations
StartedExecute ==
    /\ pc = "startedExec"
    /\ \E resp \in Responses(TRUE) :
         /\ calls' = Append(calls, ExecuteCall("optimization_started", tempVals.filter, NoCount))
         /\ served' = served + 1
         /\ startedPage' = StartedPageOf(resp, served + 1, startedAttrs)
         /\ CASE resp.kind \in {"clientErr", "nilMain", "noRows", "noCols", "notDataSet"} ->
                   /\ Return(Returned("blockerData"))
                   /\ logged' = (IF resp.kind = "clientErr" THEN logged
                                 ELSE LogErrors(resp, logged))
                   /\ UNCHANGED <<output, blockerRows>>
              [] StartedRowPanics(resp) ->
                   /\ Return(Returned("panic"))
                   /\ logged' = LogErrors(resp, logged)
                   /\ UNCHANGED <<output, blockerRows>>
              [] OTHER ->
                   LET lookup == extractStartedBlockersData(DataSetOf(resp, served + 1),
                                                            startedAttrs)
                       missed(upTo) == \E i \in 1..upTo : i \notin DOMAIN lookup
                   IN  /\ blockerRows' = lookup
                       /\ IF badKey \in 1..Len(eventRows)
                          THEN \* optimizerId.(string) or optimizationNum.(string)
                               /\ Return(Returned("panic"))
                               /\ logged' = (IF missed(badKey - 1)
                                             THEN LogErrors(resp, logged) \cup {"joinMiss"}
                                             ELSE LogErrors(resp, logged))
                               /\ UNCHANGED output
                          ELSE \E blockers \in [DOMAIN lookup \cap DOMAIN eventRows ->
                                                  Blockers({ attr \in startedAttrs :
                                                             HasPrefix(attr, IgnoredBlockers) })] :
                                 /\ output' = Append(output,
                                                Items(JoinRows(eventRows, lookup, blockers)))
                                 /\ logged' = (IF missed(Len(eventRows))
                                               THEN LogErrors(resp, logged) \cup {"joinMiss"}
                                               ELSE LogErrors(resp, logged))
                                 /\ Return(Returned("nil"))
    /\ UNCHANGED <<inputVars, entityPages, tempVals, resolverVars, fetchVars, followVars>>

(***************************************************************************)
(* The follow loop of listEvents: the foreground selects on interrupt and  *)
(* followChan; each result received starts a goroutine that sleeps when    *)
(* the cursor was exhausted, polls (followDatasetAndPrint) and sends the   *)
(* result.  Time is counted in ticks while a goroutine sleeps.             *)
(***************************************************************************)
\* a goroutine started by the foreground for the result `res`
Spawn(res) ==
    [pc |-> "start", in |-> res, timer |-> 0, slept |-> FALSE, waited |-> 0,
     poll |-> 0, out |-> FollowResult(NilDataSet, "", FALSE, 0)]

\* a receive that leaves the value in the channel
RecvKeeping(ch) == ch

\* a value received from a channel leaves the channel
Recv(ch) == Tail(ch)

\* a send on a channel of capacity ChanCap goes through when a slot is free
CanSend(ch) == Len(ch) < ChanCap

Remove(seq, i) == [j \in 1..(Len(seq) - 1) |-> IF j < i THEN seq[j] ELSE seq[j + 1]]

\* the operating system delivers SIGINT or SIGTERM: signal.Notify's send never
\* blocks, a signal that finds the channel full is dropped
Signal ==
    /\ pc = "select"
    /\ interrupt' = Min(interrupt + 1, ChanCap)
    /\ UNCHANGED <<inputVars, entityPages, joinVars, pc, ret, tempVals, resolverVars, fetchVars, served, calls,
                   output, logged, followChan, tasks, polls>>

\* case <-interrupt
FgInterrupt ==
    /\ pc = "select"
    /\ interrupt > 0
    /\ interrupt' = interrupt - 1
    /\ Return(Returned("nil"))
    /\ UNCHANGED <<inputVars, entityPages, joinVars, tempVals, resolverVars, fetchVars, served, calls, output,
                   logged, followChan, tasks, polls>>

\* case followResult := <-followChan
FgRecv ==
    /\ pc = "select"
    /\ followChan # <<>>
    /\ LET followResult == Head(followChan)
       IN  /\ followChan' = Recv(followChan)
           /\ IF followResult.err # ""
              THEN Return(Returned(followResult.err)) /\ tasks' = tasks
              ELSE tasks' = Append(tasks, Spawn(followResult)) /\ UNCHANGED <<pc, ret>>
    /\ UNCHANGED <<inputVars, entityPages, joinVars, tempVals, resolverVars, fetchVars, served, calls, output,
                   logged, interrupt, polls>>

\* the goroutine t calls ContinueQuery(data_set, "follow"): the poll is in flight
IssuePoll(i, t) ==
    /\ Len(polls) < MaxPolls
    /\ calls' = Append(calls, ContinueCall("events", "follow", t.in.data_set.h))
    /\ polls' = Append(polls, [on |-> t.in.data_set.h, cause |-> t.in.from,
                               slept |-> t.slept, waited |-> t.waited,
                               done |-> FALSE, kind |-> "", h |-> 0, n |-> 0])
    /\ tasks' = [tasks EXCEPT ![i] = [t EXCEPT !.pc = "inflight", !.poll = Len(polls) + 1]]

\* the sleep test negated
ShouldSleepNegated(res) == ~res.cursorExhausted

\* if followResult.cursorExhausted { time.Sleep(flags.followInterval) }
ShouldSleep(res) == res.cursorExhausted

\* the goroutine's first step: sleep if the cursor was exhausted, else poll
BgStart ==
    \E i \in DOMAIN tasks :
      /\ tasks[i].pc = "start"
      /\ IF ShouldSleep(tasks[i].in)
         THEN /\ tasks' = [tasks EXCEPT ![i] = [@ EXCEPT !.pc = "sleep", !.slept = TRUE,
                                                        !.timer = flags.followInterval]]
              /\ UNCHANGED <<calls, polls>>
         ELSE IssuePoll(i, tasks[i])
      /\ UNCHANGED <<inputVars, entityPages, joinVars, pc, ret, tempVals, resolverVars, fetchVars, served, output,
                     logged, interrupt, followChan>>

\* one tick of time passes for the sleeping goroutines
Tick ==
    /\ \E i \in DOMAIN tasks : tasks[i].pc = "sleep" /\ tasks[i].timer > 0
    /\ tasks' = [i \in DOMAIN tasks |->
                   IF tasks[i].pc = "sleep" /\ tasks[i].timer > 0
                   THEN [tasks[i] EXCEPT !.timer = @ - 1, !.waited = @ + 1]
                   ELSE tasks[i]]
    /\ UNCHANGED <<inputVars, entityPages, joinVars, pc, ret, tempVals, resolverVars, fetchVars, served, calls,
                   output, logged, interrupt, followChan, polls>>

\* time.Sleep(flags.followInterval) returns and the goroutine polls
BgWake ==
    \E i \in DOMAIN tasks :
      /\ tasks[i].pc = "sleep"
      /\ tasks[i].timer = 0
      /\ IssuePoll(i, tasks[i])
      /\ UNCHANGED <<inputVars, entityPages, joinVars, pc, ret, tempVals, resolverVars, fetchVars, served, output,
                     logged, interrupt, followChan>>


\* a followDatasetAndPrint that does not check len(main_data_set.Data)
FollowErrNoRowsUnchecked(kind) ==
    CASE kind = "clientErr" -> "followContinueQuery"
      [] kind = "noCols" -> "followNoColumns"
      [] kind = "notDataSet" -> "followNotDataSet"
      [] OTHER -> ""

\* the error followDatasetAndPrint returns for a response ("": none)
FollowErr(kind) ==
    CASE kind = "clientErr" -> "followContinueQuery"
      [] kind = "noRows" -> "followNoRows"
      [] kind = "noCols" -> "followNoColumns"
      [] kind = "notDataSet" -> "followNotDataSet"
      [] OTHER -> ""

\* a follower that hands back the dataset it polled, whatever the response
followDatasetAndPrintStale(ds_in, resp, h, k) ==
    LET log == IF resp.kind = "clientErr" THEN {} ELSE LogErrors(resp, {})
    IN  IF FollowErr(resp.kind) # ""
        THEN [res |-> FollowResult(NilDataSet, FollowErr(resp.kind), FALSE, k),
              rows |-> <<>>, log |-> log, panic |-> FALSE]
        ELSE IF resp.kind = "nilMain"
        THEN [res |-> FollowResult(ds_in, "", FALSE, k),
              rows |-> <<>>, log |-> log \cup {"nilMain"}, panic |-> FALSE]
        ELSE LET ds == DataSetOf(resp, h)
                 ex == extractEventsData(ds)
             IN  [res |-> FollowResult(ds_in, "", Len(ex.rows) = 0, k),
                  rows |-> ex.rows, log |-> log, panic |-> ex.panic]

\* followDatasetAndPrint on the response to ContinueQuery(data_set, "follow"):
\* the followEventResult, the rows printed, the log lines, and whether an
\* unchecked type assertion of extractEventsData panicked.  h is the handle of
\* the dataset in the response, k the number of the poll.
followDatasetAndPrint(ds_in, resp, h, k) ==
    LET log == IF resp.kind = "clientErr" THEN {} ELSE LogErrors(resp, {})
    IN  IF FollowErr(resp.kind) # ""
        THEN [res |-> FollowResult(NilDataSet, FollowErr(resp.kind), FALSE, k),
              rows |-> <<>>, log |-> log, panic |-> FALSE]
        ELSE IF resp.kind = "nilMain"
        THEN [res |-> FollowResult(ds_in, "", FALSE, k),
              rows |-> <<>>, log |-> log \cup {"nilMain"}, panic |-> FALSE]
        ELSE LET ds == DataSetOf(resp, h)
                 ex == extractEventsData(ds)
             IN  [res |-> FollowResult(ds, "", Len(ex.rows) = 0, k),
                  rows |-> ex.rows, log |-> log, panic |-> ex.panic]

\* the response to a poll in flight arrives and followDatasetAndPrint runs to
\* its return; a panic in the goroutine ends the process
BgComplete ==
    \E i \in DOMAIN tasks :
      /\ tasks[i].pc = "inflight"
      /\ \E resp \in Responses(FALSE) :
           LET t == tasks[i]
               r == followDatasetAndPrint(t.in.data_set, resp, served + 1, t.poll)
           IN  /\ served' = served + 1
               /\ logged' = logged \cup r.log
               /\ polls' = [polls EXCEPT ![t.poll] =
                              [@ EXCEPT !.done = TRUE, !.kind = resp.kind,
                                         !.h = PageOf(resp, served + 1).h,
                                         !.n = Len(r.rows)]]
               /\ IF r.panic
                  THEN /\ tasks' = <<>>
                       /\ pc' = "done"
                       /\ ret' = (IF pc = "done" THEN ret ELSE Returned("panic"))
                       /\ output' = output
                  ELSE /\ tasks' = [tasks EXCEPT ![i] = [t EXCEPT !.pc = "send", !.out = r.res]]
                       /\ output' = (IF Len(r.rows) > 0
                                     THEN Append(output, FollowItems(r.rows))
                                     ELSE output)
                       /\ UNCHANGED <<pc, ret>>
      /\ UNCHANGED <<inputVars, entityPages, joinVars, tempVals, resolverVars, fetchVars, calls, interrupt,
                     followChan>>

\* followChan <- result, and the goroutine ends
BgSend ==
    \E i \in DOMAIN tasks :
      /\ tasks[i].pc = "send"
      /\ CanSend(followChan)
      /\ followChan' = Append(followChan, tasks[i].out)
      /\ tasks' = Remove(tasks, i)
      /\ UNCHANGED <<inputVars, entityPages, joinVars, pc, ret, tempVals, resolverVars, fetchVars, served, calls,
                     output, logged, interrupt, polls>>

(***************************************************************************)
(* The specifications.                                                     *)
(***************************************************************************)
\* RunE called again on the command object: the closure holds the same
\* flags struct, and its local variables start afresh.  A panic ended the
\* process.
Rerun ==
    /\ pc = "done"
    /\ ret.tag # "panic"
    /\ ~flags.follow
    /\ run < MaxRuns
    /\ run' = run + 1
    /\ pc' = "start"
    /\ ret' = Running
    /\ tempVals' = NoTemplateValues
    /\ results' = <<>>
    /\ mainDataSet' = [h |-> 0, next |-> FALSE]
    /\ eventRows' = <<>>
    /\ data_set' = NilDataSet
    /\ page' = 0
    /\ UNCHANGED <<cmd, flags, startedAttrs, badKey, pages, entityPages, joinVars, served, calls,
                   output, logged, followVars>>

Next ==
    \/ Begin
    \/ listOptimizations_Execute
    \/ listOptimizations_Continue
    \/ MainExecute
    \/ MainContinue
    \/ StartedExecute
    \/ Signal
    \/ FgInterrupt
    \/ FgRecv
    \/ BgStart
    \/ Tick
    \/ BgWake
    \/ BgComplete
    \/ BgSend

Spec == Init /\ [][Next]_vars

\* the recommendations command from JoinInit: with --optimizer-id and the
\* default --count there is no entity lookup and no "next" loop
JoinNext ==
    \/ Begin
    \/ MainExecute
    \/ StartedExecute

JoinSpec == JoinInit /\ [][JoinNext]_vars

\* the "next" loops run in the command function's own thread: a turn that
\* can be taken is taken
FairSpec ==
    Spec /\ WF_vars(MainContinue) /\ WF_vars(listOptimizations_Continue)

\* the events command called with --optimizer-id and a count, with and
\* without --include-progress and --events, and called again on the same
\* command object
RenderInit ==
    /\ cmd = "events"
    /\ flags \in { f \in FetchFlags : /\ ValidateFlagGroups(f)
                                      /\ f.optimizerId = "v" /\ f.count = 1
                                      /\ f.events # <<>> }
    /\ startedAttrs = {AttrCpuLimitReason, AttrState}
    /\ badKey = 0
    /\ Start

RenderNext ==
    \/ Begin
    \/ MainExecute
    \/ Rerun

RenderSpec == RenderInit /\ [][RenderNext]_vars

\* the command functions called with an optimizer id and every subset of the
\* other three criteria: the flag groups are cobra's, the closures read
\* whatever the flags struct holds
CompileInit ==
    /\ cmd \in {"events", "recommendations"}
    /\ flags \in { f \in FetchFlags :
                      /\ f.optimizerId = "v" /\ f.count = 1
                      /\ ~f.includeProgress
                      /\ f.events = (IF cmd = "events" THEN defaultEvents ELSE <<>>) }
    /\ startedAttrs = {AttrCpuLimitReason, AttrState}
    /\ badKey = 0
    /\ Start

CompileNext ==
    \/ Begin
    \/ MainExecute
    \/ StartedExecute

CompileSpec == CompileInit /\ [][CompileNext]_vars


(***************************************************************************)
(* What the properties read of the history.                                *)
(***************************************************************************)
IsNextCall(c) == c.op = "ContinueQuery" /\ c.link = "next" /\ c.query = MainQuery
IsRoundTrip(c) == c.query = MainQuery /\ c.link # "follow"
IsFollowCall(c) == c.op = "ContinueQuery" /\ c.link = "follow"

\* the "next" calls of the main query, its round trips, the follow polls
NextCalls == SelectSeq(calls, IsNextCall)
RoundTrips == SelectSeq(calls, IsRoundTrip)
FollowCalls == SelectSeq(calls, IsFollowCall)

\* the rows of a page, in row order, and of a chain of pages, in page order
PageRows(pg) == [i \in 1..pg.n |-> <<pg.h, i>>]

RECURSIVE ConcatPages(_)
ConcatPages(ps) ==
    IF ps = <<>> THEN <<>> ELSE PageRows(Head(ps)) \o ConcatPages(Tail(ps))

\* the event rows of an output entry
RowsOf(o) ==
    IF cmd = "events" THEN o.items ELSE [i \in DOMAIN o.items |-> o.items[i].row]

\* pages 1..N-1 carry "next", page N does not, and every page is well formed
WellFormedChain ==
    /\ pages # <<>>
    /\ \A k \in DOMAIN pages : pages[k].kind = "ok" /\ (pages[k].next <=> k < Len(pages))

\* the follow loop was entered: the result set was printed with follow set
\* and a dataset in hand
LoopEntered ==
    /\ cmd = "events" /\ flags.follow
    /\ output # <<>> /\ output[1].kind = "items"
    /\ data_set # NilDataSet

\* the command function returned on case <-interrupt
Cancelled == LoopEntered /\ pc = "done" /\ ret = Returned("nil")

(***************************************************************************)
(* C1.  A cap above 1000 fails with the invalid-argument error before any  *)
(* query is issued, whatever the other criteria: no ExecuteQuery and no    *)
(* ContinueQuery, of the main query or of the entity lookup.               *)
(* The code looks the optimizer ids up before it checks the cap.           *)
(***************************************************************************)
C1_CapFailsBeforeAnyQuery ==
    flags.count > MaxCount =>
      /\ calls = <<>>
      /\ pc = "done" => ret = Returned("InvalidArgument")

(***************************************************************************)
(* C2.  listEvents without cap and without follow, on a chain of N well    *)
(* formed pages: the rows printed are the pages' rows in page order, the   *)
(* total is their number, and the round trips are one ExecuteQuery and     *)
(* then N-1 ContinueQuery "next", each on the page before.                 *)
(***************************************************************************)
C2_PaginatorRoundTrip ==
    (cmd = "events" /\ flags.count = NoCount /\ ~flags.follow
       /\ pc = "done" /\ WellFormedChain) =>
      /\ ret = Returned("nil")
      /\ Len(output) = 1
      /\ output[1].kind = "items"
      /\ output[1].items = ConcatPages(pages)
      /\ output[1].total = Len(ConcatPages(pages))
      /\ Len(RoundTrips) = Len(pages)
      /\ RoundTrips[1].op = "ExecuteQuery"
      /\ \A k \in 2..Len(pages) :
           RoundTrips[k] = ContinueCall("events", "next", pages[k - 1].h)

C2_ThreePagesDelivered ==
    /\ cmd = "events" /\ flags.count = NoCount /\ ~flags.follow
    /\ pc = "done" /\ WellFormedChain
    /\ Len(pages) >= 3
    /\ \A k \in DOMAIN pages : pages[k].n >= 1

(***************************************************************************)
(* C3.  With a cap set no "next" call of the main query is ever issued,    *)
(* by listEvents or by listRecommendations, and what is printed holds the  *)
(* rows of the first page only.                                            *)
(***************************************************************************)
C3_CapSkipsPagination ==
    flags.count # NoCount =>
      /\ NextCalls = <<>>
      /\ \A i \in DOMAIN output :
           output[i].kind = "items" => RowsOf(output[i]) = PageRows(pages[1])

C3_CappedFirstPageWithNext ==
    /\ cmd = "recommendations" /\ flags.count # NoCount
    /\ pc = "done"
    /\ pages # <<>> /\ pages[1].kind = "ok" /\ pages[1].next /\ pages[1].n >= 1
    /\ \E i \in DOMAIN output : output[i].kind = "items" /\ Len(output[i].items) >= 1

(***************************************************************************)
(* C4.  With follow set, listEvents issues no "next" call, prints the rows *)
(* of the first page only, and issues its first follow poll on the first   *)
(* page.                                                                   *)
(***************************************************************************)
C4_FollowSkipsPagination ==
    (cmd = "events" /\ flags.follow) =>
      /\ NextCalls = <<>>
      /\ \A i \in DOMAIN output :
           output[i].kind = "items" => output[i].items = PageRows(pages[1])
      /\ FollowCalls # <<>> => (pages[1].h # 0 /\ FollowCalls[1].on = pages[1].h)

C4_FollowedFirstPageWithNext ==
    /\ cmd = "events" /\ flags.follow
    /\ pages # <<>> /\ pages[1].kind = "ok" /\ pages[1].next /\ pages[1].n >= 1
    /\ FollowCalls # <<>>


(***************************************************************************)
(* C5.  Eager drain: the poll that follows a poll which returned rows is   *)
(* issued without a sleep; the poll that follows a poll which returned an  *)
(* empty batch is issued only after the follow interval has passed.  A     *)
(* poll answered with nil main data returns no rows either, but its result *)
(* does not say that the cursor is exhausted: the next poll is issued at   *)
(* once.                                                                   *)
(***************************************************************************)
BatchKinds == {"ok", "nilDataSet"}

\* C5 as stated: after every completed poll that returned rows the next poll
\* is issued without a sleep, and after every completed poll that returned
\* no rows the next poll is issued only after the follow interval.
C5_EveryEmptyPollSleeps ==
    \A k \in DOMAIN polls :
      LET j == polls[k].cause
      IN  j > 0 =>
            /\ polls[j].done
            /\ polls[j].n > 0 => (~polls[k].slept /\ polls[k].waited = 0)
            /\ polls[j].n = 0 =>
                 (polls[k].slept /\ polls[k].waited >= flags.followInterval)

\* C5, amended: after a poll that returned rows, and after a poll answered
\* with nil main data, the next poll is issued without a sleep; after a poll
\* that returned an empty batch the next poll is issued only after the
\* follow interval.
C5_EagerDrain ==
    \A k \in DOMAIN polls :
      LET j == polls[k].cause
      IN  j > 0 =>
            /\ polls[j].done
            /\ (polls[j].kind \in BatchKinds /\ polls[j].n > 0) =>
                 (~polls[k].slept /\ polls[k].waited = 0)
            /\ (polls[j].kind \in BatchKinds /\ polls[j].n = 0) =>
                 (polls[k].slept /\ polls[k].waited >= flags.followInterval)
            /\ polls[j].kind = "nilMain" =>
                 (polls[j].n = 0 /\ ~polls[k].slept /\ polls[k].waited = 0)
            /\ polls[j].kind \in BatchKinds \cup {"nilMain"}

\* the first poll returned an empty batch and the second was issued after the
\* interval; the second had nil main data and the third was issued at once
C5_SleptThenRepolledAtOnce ==
    /\ flags.followInterval >= 1
    /\ Len(polls) = 3
    /\ polls[1].kind = "ok" /\ polls[1].n = 0
    /\ polls[2].slept /\ polls[2].waited >= 1
    /\ polls[2].kind = "nilMain"
    /\ ~polls[3].slept

\* a poll that returned rows was followed at once, a poll that returned an
\* empty batch after the interval
C5_DrainedThenSlept ==
    /\ flags.followInterval >= 1
    /\ \E k \in DOMAIN polls :
         /\ polls[k].cause > 0
         /\ polls[polls[k].cause].kind = "ok" /\ polls[polls[k].cause].n > 0
         /\ ~polls[k].slept
    /\ \E k \in DOMAIN polls :
         /\ polls[k].cause > 0
         /\ polls[polls[k].cause].kind = "ok" /\ polls[polls[k].cause].n = 0
         /\ polls[k].waited >= 1

(***************************************************************************)
(* C6.  Once the foreground has returned on the interrupt, no further      *)
(* follow poll is issued.  The goroutine started before the interrupt is   *)
(* never told to stop: it issues its poll when it runs before the process  *)
(* exits.                                                                  *)
(***************************************************************************)
C6_NoPollAfterCancel ==
    [][Cancelled => FollowCalls' = FollowCalls]_vars

(***************************************************************************)
(* C7.  At most one follow poll is in flight and at most one goroutine is  *)
(* alive: a goroutine is started only for a result received, and every     *)
(* poll but the first is caused by the poll before it, which has returned; *)
(* while a goroutine is alive followChan is empty.                         *)
(***************************************************************************)
C7_OnePollInFlight ==
    /\ Len(tasks) <= 1
    /\ Cardinality({k \in DOMAIN polls : ~polls[k].done}) <= 1
    /\ \A k \in DOMAIN polls : k > 1 => (polls[k].cause = k - 1 /\ polls[k - 1].done)
    /\ tasks # <<>> => followChan = <<>>

C7_SecondPollInFlight ==
    /\ Len(polls) >= 2
    /\ ~polls[Len(polls)].done
    /\ \E i \in DOMAIN tasks : tasks[i].pc = "inflight"

(***************************************************************************)
(* C8.  Once the foreground has returned on the interrupt, nothing more is *)
(* printed: the rows of a poll that was in flight are not emitted.         *)
(* followDatasetAndPrint prints in the goroutine, which is not stopped.    *)
(***************************************************************************)
C8_NoOutputAfterCancel ==
    [][Cancelled => output' = output]_vars

(***************************************************************************)
(* C9.  The claim as stated: a poll whose response has nil main data, no   *)
(* row group, an empty first row group or a first cell that is no dataset  *)
(* is the last poll, and its result carries an error.                      *)
(***************************************************************************)
ShapeKinds == {"noRows", "noCols", "notDataSet"}

ShapeErr(kind) ==
    CASE kind = "noRows" -> "followNoRows"
      [] kind = "noCols" -> "followNoColumns"
      [] kind = "notDataSet" -> "followNotDataSet"

\* the result of poll k carries an error of `errs`: it waits to be sent, waits
\* in followChan, or the foreground has returned it (or returned on the
\* interrupt before it read it)
Surfaces(k, errs) ==
    \/ \E i \in DOMAIN tasks :
         tasks[i].pc = "send" /\ tasks[i].out.from = k /\ tasks[i].out.err \in errs
    \/ \E i \in DOMAIN followChan : followChan[i].from = k /\ followChan[i].err \in errs
    \/ pc = "done" /\ (ret.tag \in errs \/ ret = Returned("nil"))

C9_NilOrShapeIsFatal ==
    \A k \in DOMAIN polls :
      (polls[k].done /\ polls[k].kind \in ShapeKinds \cup {"nilMain"}) =>
        /\ k = Len(polls)
        /\ Surfaces(k, {"followNoRows", "followNoColumns", "followNotDataSet",
                        "followNilMain"})

(***************************************************************************)
(* C9, amended.  A poll whose page has no row group, an empty first row    *)
(* group or a first cell that is no dataset is the last poll, and the      *)
(* foreground returns its error unless it returns on the interrupt first.  *)
(* A poll whose response has nil main data is not fatal: it is logged, the *)
(* next poll is issued on the same handle, without a sleep, and the        *)
(* foreground returns after it only on the interrupt.                      *)
(***************************************************************************)
C9_ShapeIsFatalNilIsNot ==
    \A k \in DOMAIN polls :
      /\ (polls[k].done /\ polls[k].kind \in ShapeKinds) =>
           /\ k = Len(polls)
           /\ Surfaces(k, {ShapeErr(polls[k].kind)})
      /\ (polls[k].done /\ polls[k].kind = "nilMain") =>
           /\ "nilMain" \in logged
           /\ k < Len(polls) =>
                (polls[k + 1].on = polls[k].on /\ ~polls[k + 1].slept
                   /\ polls[k + 1].cause = k)
           /\ (k = Len(polls) /\ pc = "done") => ret = Returned("nil")

C9_NilThenShapeError ==
    /\ Len(polls) >= 2
    /\ polls[1].kind = "nilMain"
    /\ polls[2].done /\ polls[2].kind \in ShapeKinds
    /\ pc = "done" /\ ret = Returned(ShapeErr(polls[2].kind))

(***************************************************************************)
(* C10.  Once entered, the follow loop ends only on the interrupt, with no *)
(* error, or on the error of a poll, which it returns.                     *)
(* A row of the wrong shape in a followed page panics in the goroutine     *)
(* (extractEventsData), which ends the process.                            *)
(***************************************************************************)
FollowErrors ==
    {"followContinueQuery", "followNoRows", "followNoColumns", "followNotDataSet"}

C10_EndsOnCancelOrError ==
    (LoopEntered /\ pc = "done") =>
      \/ ret = Returned("nil")
      \/ /\ ret.tag \in FollowErrors
         /\ polls # <<>>
         /\ polls[Len(polls)].done
         /\ FollowErr(polls[Len(polls)].kind) = ret.tag

(***************************************************************************)
(* The Entity Resolver's callers, the predicate, and the Blocker Joiner.   *)
(***************************************************************************)
\* listOptimizations has returned to its caller without an error
ResolverSucceeded ==
    /\ NeedsResolver
    /\ pc \notin {"start", "entityExec", "entityNext"}
    /\ ret.tag # "listOptimizations"

\* C11: when the optimizer id is empty, namespace and/or workload name is set
\* and listOptimizations returns an empty sequence without an error, the
\* command prints the no-entities status as its only output, returns nil, and
\* has issued nothing but the entity query: no main query, no blocker query.
C11_EmptyResolverShortCircuits ==
    (ResolverSucceeded /\ results = <<>>) =>
        /\ pc = "done"
        /\ ret = Returned("nil")
        /\ output = <<Status("noEntities")>>
        /\ \A i \in DOMAIN calls : calls[i].query = "optimization"

\* C11 witness: the recommendations command ended that way after an entity
\* query of two pages, neither of which held an identifier
C11_TwoEmptyEntityPages ==
    /\ cmd = "recommendations"
    /\ ResolverSucceeded
    /\ results = <<>>
    /\ Len(calls) = 2
    /\ output = <<Status("noEntities")>>

\* the clauses of a predicate, as the template values carry them
OptimizerClause == <<Eq("optimize.optimization.optimizer_id", flags.optimizerId)>>
ClusterClause ==
    IF flags.clusterId # "" THEN <<Eq("k8s.cluster.id", flags.clusterId)>> ELSE <<>>

\* C12 as stated: when the optimizer id is set, the predicate of every events,
\* recommendations and optimization_started query is the optimizer-id equality
\* clause alone; cluster id, namespace and workload name add no clause.
C12_OptimizerIdAlone ==
    flags.optimizerId # "" =>
        \A i \in DOMAIN calls :
            calls[i].op = "ExecuteQuery" => calls[i].filter = OptimizerClause

\* C12, amended: when the optimizer id is set, namespace and workload name
\* add no clause and no entity lookup is made; the predicate of every query
\* is the optimizer-id equality clause, preceded by the cluster-id equality
\* clause when a cluster id is set as well.
C12_OptimizerIdSkipsLookup ==
    flags.optimizerId # "" =>
        /\ pc \notin {"entityExec", "entityNext"}
        /\ \A i \in DOMAIN calls :
              /\ calls[i].query # "optimization"
              /\ calls[i].op = "ExecuteQuery" =>
                    calls[i].filter = ClusterClause \o OptimizerClause

\* the recommendations command, given all four criteria, has issued its main
\* query and its blocker query with the cluster and the optimizer clause
C12_AllCriteriaQueried ==
    /\ cmd = "recommendations"
    /\ flags.optimizerId # "" /\ flags.clusterId # ""
    /\ flags.namespace # "" /\ flags.workloadName # ""
    /\ Len(calls) = 2
    /\ calls[1].query = "recommendations"
    /\ calls[2].query = "optimization_started"
    /\ calls[2].filter = <<Eq("k8s.cluster.id", flags.clusterId),
                           Eq("optimize.optimization.optimizer_id", flags.optimizerId)>>

\* C13: the optimization_started query is followed over its "next" links: the
\* command does not emit a recommendation as one without start event when
\* the first page of start events carries a "next" link, unless it has
\* continued the query on that page.
C13_StartedQueryPaginated ==
    (/\ cmd = "recommendations" /\ pc = "done" /\ ret = Returned("nil")
     /\ startedPage.kind = "ok" /\ startedPage.next
     /\ Len(eventRows) > startedPage.n) =>
        \E i \in DOMAIN calls :
            calls[i] = ContinueCall("optimization_started", "next", startedPage.h)

\* the rows without a lookup entry were emitted without blockers, and the
\* command returned nil
MissesEmittedEmpty ==
    /\ ret = Returned("nil")
    /\ output # <<>>
    /\ LET items == output[Len(output)].items
       IN  /\ Len(items) = Len(eventRows)
           /\ \A i \in DOMAIN items :
                i \notin DOMAIN blockerRows => items[i] = NoBlockers(eventRows[i])

\* C14: a recommendation without start-event data never aborts the command,
\* not even when the optimization_started query returns no data at all (nil
\* main data, no row-group, a nil or an empty dataset): every such row is
\* emitted with no blocker attribute, no blocker id and blockersPresent
\* false, and the command returns nil.
C14_JoinMissIsSoft ==
    (/\ cmd = "recommendations" /\ pc = "done" /\ eventRows # <<>>
     /\ startedPage.kind \in {"nilMain", "noRows", "nilDataSet", "ok"}) =>
        MissesEmittedEmpty

\* the rows the recommendations command printed (none before it prints)
JoinedItems ==
    IF cmd = "recommendations" /\ pc = "done" /\ ret = Returned("nil") /\ output # <<>>
    THEN output[Len(output)].items
    ELSE <<>>

\* the rows printed that have a lookup entry
Matched == { i \in DOMAIN JoinedItems : i \in DOMAIN blockerRows }

\* the second-to-last dot-delimited segment of an attribute name
SecondToLast(attr) == Split(attr, ".")[Len(Split(attr, ".")) - 1]

\* the identifiers of an entry: one per attribute not naming a principal
IdsOfEntry(entry) == { SecondToLast(attr) : attr \in { a \in entry : ~Contains(a, Principal) } }

\* the elements of a sequence
Elems(seq) == { seq[j] : j \in DOMAIN seq }

\* C15: the blocker ids of a row with a lookup entry are exactly the
\* second-to-last segments of the entry's attribute names that do not contain
\* "principal", each once: an identifier is left out only if the very same
\* identifier is already there, so "cpu" and "cpu-limit" are both present.
C15_ExactDedupe ==
    \A i \in Matched :
        /\ Elems(JoinedItems[i].blockers) = IdsOfEntry(blockerRows[i])
        /\ \A j, k \in DOMAIN JoinedItems[i].blockers :
               j # k => JoinedItems[i].blockers[j] # JoinedItems[i].blockers[k]

\* C16: the lookup keeps only attributes whose name starts with
\* optimize.ignored_blockers; every attribute of a row's entry is copied into
\* the row's blocker attributes; every blocker id of the row comes from an
\* attribute whose name does not contain "principal"; and the attribute
\* optimize.ignored_blockers.cpu-limit.reason puts "cpu-limit" among the ids.
C16_PrincipalAddsNoId ==
    /\ \A key \in DOMAIN blockerRows :
         /\ blockerRows[key] \subseteq startedPage.attrs
         /\ AttrState \notin blockerRows[key]
         /\ \A attr \in blockerRows[key] : SubSeq(attr, 1, 3) = IgnoredBlockers
    /\ \A i \in Matched :
         /\ JoinedItems[i].attrs = blockerRows[i]
         /\ \A id \in Elems(JoinedItems[i].blockers) :
              \E attr \in JoinedItems[i].attrs :
                  ~Contains(attr, Principal) /\ SecondToLast(attr) = id
         /\ AttrCpuLimitReason \in JoinedItems[i].attrs =>
              <<"cpu", "-limit">> \in Elems(JoinedItems[i].blockers)

\* C16 witness: a start event with the principal and the reason of cpu-limit
\* and with optimize.state; the row printed carries the first two as blocker
\* attributes and cpu-limit, once, as its only blocker id
C16_PrincipalAndReasonJoined ==
    /\ startedPage.attrs = {AttrCpuLimitPrincipal, AttrCpuLimitReason, AttrState}
    /\ 1 \in Matched
    /\ JoinedItems[1].attrs = {AttrCpuLimitPrincipal, AttrCpuLimitReason}
    /\ JoinedItems[1].blockers = << <<"cpu", "-limit">> >>
    /\ JoinedItems[1].present

\* C16 witness of the principal alone: the attribute is copied and adds no id
C16_PrincipalAlone ==
    /\ 1 \in Matched
    /\ JoinedItems[1].attrs = {AttrCpuLimitPrincipal}
    /\ JoinedItems[1].blockers = <<>>

(***************************************************************************)
(* Page shapes, the Entity Resolver's pages, and the panics.               *)
(***************************************************************************)
\* the page of the main query handled last, and its number
LastPage == pages[Len(pages)]

\* the error a page with that violation ends the command with
ShapeTag(kind) ==
    CASE kind = "noRows" -> "noRows"
      [] kind = "noCols" -> "noColumns"
      [] kind = "notDataSet" -> "notDataSet"
      [] OTHER -> ""

\* the command failed on the last page, naming it unless it is the first
FailedOnLastPage ==
    /\ pc = "done"
    /\ ret.tag \in {"noRows", "noColumns", "notDataSet", "nilMain"}
    /\ Len(pages) > 1 => ret.page = Len(pages)
    /\ output = <<>>

\* C17 as stated: on the first page and on every continuation page of the
\* main query, nil main data, no row-group, an empty first row-group or a
\* first cell that is no dataset makes the command fail with an error that
\* names the page; the run never ends well with partial or empty output.
C17_EveryPageShapeFatal ==
    (pages # <<>> /\ LastPage.kind \in {"nilMain", "noRows", "noCols", "notDataSet"}) =>
        FailedOnLastPage

\* C17 as the code has it.  First page: an empty first row-group or a first
\* cell that is no dataset is an error; nil main data or no row-group ends
\* the run with the no-results status and nil.  Continuation page k: no
\* row-group, an empty first row-group or a first cell that is no dataset is
\* an error naming page k, and nothing is printed; nil main data is logged
\* and ends the "next" loop, the rows of pages 1..k-1 are kept, listEvents
\* prints them and returns nil, listRecommendations goes on to its join.
C17_ShapeFatalNilMainSoft ==
    pages # <<>> =>
      LET k == Len(pages)
          kind == LastPage.kind
      IN  /\ (k = 1 /\ kind \in {"noCols", "notDataSet"}) =>
                pc = "done" /\ ret = Returned(ShapeTag(kind)) /\ output = <<>>
          /\ (k = 1 /\ kind \in {"nilMain", "noRows"}) =>
                pc = "done" /\ ret = Returned("nil") /\ output = <<Status("noResults")>>
          /\ (k > 1 /\ kind \in {"noRows", "noCols", "notDataSet"}) =>
                pc = "done" /\ ret = [tag |-> ShapeTag(kind), page |-> k] /\ output = <<>>
          /\ (k > 1 /\ kind = "nilMain") =>
                /\ "nilMain" \in logged
                /\ eventRows = ConcatPages(SubSeq(pages, 1, k - 1))
                /\ IF cmd = "events"
                   THEN pc = "done" /\ ret = Returned("nil") /\ output = <<Items(eventRows)>>
                   ELSE pc \in {"startedExec", "done"}
                        /\ ret.tag \in {"running", "nil", "blockerData", "panic"}

\* C17 witness: listEvents ended well with the two rows of page 1 after page 2
\* came without main data
C17_PartialAfterNilMain ==
    /\ cmd = "events"
    /\ Len(pages) = 2
    /\ pages[1].n = 2
    /\ LastPage.kind = "nilMain"
    /\ pc = "done" /\ ret = Returned("nil")
    /\ output = <<Items(PageRows(pages[1]))>>

\* the identifiers of an entity page, in row order, and of a chain of pages
EntityIds(pg) == IF pg.kind = "ok" THEN [i \in 1..pg.n |-> IdOf(pg.h, i)] ELSE <<>>

RECURSIVE ConcatEntityIds(_)
ConcatEntityIds(ps) ==
    IF ps = <<>> THEN <<>> ELSE EntityIds(Head(ps)) \o ConcatEntityIds(Tail(ps))

\* C18 as stated: listOptimizations returns without an error only at the end
\* of the chain of entity pages, on a page without "next", with the
\* identifiers of all the pages in page order.
C18_ResolverComplete ==
    (ResolverSucceeded /\ Len(entityPages) > 1) =>
        /\ entityPages[Len(entityPages)].kind = "ok"
        /\ ~entityPages[Len(entityPages)].next
        /\ results = ConcatEntityIds(entityPages)

\* C18 as the code has it: a return without an error carries the identifiers
\* of every page read, in page order; it comes at the end of the chain, on a
\* page without "next", or on a response without main data, which is logged
\* when it is a continuation and leaves the identifiers of the pages before
\* it, although the page before carried "next".
C18_CompleteUnlessNilMain ==
    (ResolverSucceeded /\ entityPages # <<>>) =>
        LET N == Len(entityPages)
        IN  /\ results = ConcatEntityIds(entityPages)
            /\ \A k \in 1..(N - 1) : entityPages[k].kind = "ok" /\ entityPages[k].next
            /\ \/ entityPages[N].kind = "ok" /\ ~entityPages[N].next
               \/ entityPages[N].kind = "nilMain" /\ (N > 1 => "nilMain" \in logged)

\* C18 witness: page 1 held an identifier and "next", page 2 came without main
\* data, and the main query went out with the identifier of page 1 alone
C18_PrefixAfterNilMain ==
    /\ ResolverSucceeded
    /\ Len(entityPages) = 2
    /\ entityPages[1].n = 1
    /\ entityPages[2].kind = "nilMain"
    /\ results = <<IdOf(1, 1)>>
    /\ \E i \in DOMAIN calls :
         /\ calls[i].query = MainQuery
         /\ calls[i].filter[Len(calls[i].filter)]
              = In("optimize.optimization.optimizer_id", <<IdOf(1, 1)>>)

\* the join of listRecommendations was reached with a row that lacks a string
\* optimizer_id or num attribute
JoinedBadKey ==
    /\ cmd = "recommendations" /\ pc = "done"
    /\ startedPage.kind \in {"ok", "nilDataSet"}
    /\ badKey \in 1..Len(eventRows)

\* C19: a recommendation row whose optimizer_id or num attribute is absent or
\* not a string makes listRecommendations return an error to its caller, not
\* panic, and nothing is printed.
C19_BadKeyIsError ==
    JoinedBadKey => ret.tag \notin {"panic", "nil"} /\ output = <<>>

\* C20: extractEventsData returns an error for a row that deviates from the
\* expected shape, so the command that read the page ends with that error,
\* not with a panic.
C20_BadRowIsError ==
    (pages # <<>> /\ LastPage.kind = "badRow") => pc = "done" /\ ret.tag = "extractEventsData"

(***************************************************************************)
(* The "next" loops, the rendering, and the hand-off of the follow loop.   *)
(***************************************************************************)
IsEntityCall(c) == c.query = "optimization"
EntityCalls == SelectSeq(calls, IsEntityCall)

\* the round trips of one query against the pages it fetched: one round trip
\* per page, the first an ExecuteQuery, every later one a ContinueQuery
\* "next" on the handle of the page fetched just before, which carried
\* "next"; handles grow, so that no page is fetched twice; and the round
\* trips are at most one more than the "next" links returned
ChainOf(trips, fetched) ==
    /\ Len(trips) = Len(fetched)
    /\ \A k \in DOMAIN trips :
         IF k = 1
         THEN trips[k].op = "ExecuteQuery"
         ELSE /\ trips[k].op = "ContinueQuery"
              /\ trips[k].link = "next"
              /\ trips[k].on = fetched[k - 1].h
              /\ fetched[k - 1].kind = "ok"
              /\ fetched[k - 1].next
              /\ \A j \in 1..(k - 2) : fetched[j].h < fetched[k - 1].h
    /\ Len(trips) <= 1 + Cardinality({ k \in DOMAIN fetched : fetched[k].next })

NextLoopsAdvance ==
    /\ ChainOf(RoundTrips, pages)
    /\ ChainOf(EntityCalls, entityPages)

\* C21: over a finite chain of pages the "next" loops of listEvents,
\* listRecommendations and listOptimizations end; their round trips number
\* at most 1 + the "next" links returned, and every ContinueQuery "next" is
\* made on the handle of the page fetched last, so that no page is fetched
\* twice.
C21_NextLoopTerminates ==
    /\ []NextLoopsAdvance
    /\ (pc = "mainNext") ~> (pc # "mainNext")
    /\ (pc = "entityNext") ~> (pc # "entityNext")

\* C21 witness: a command ended after an entity query of three pages and a
\* main query of three pages
C21_ThreeAndThreePages ==
    /\ pc = "done"
    /\ Len(entityPages) = 3 /\ entityPages[3].kind = "ok"
    /\ Len(pages) = 3
    /\ pages[3].kind = "ok"

\* the queries the events command function rendered, one for each run that
\* reached ExecuteQuery
IsRendered(c) == c.op = "ExecuteQuery" /\ c.query = MainQuery
Rendered == SelectSeq(calls, IsRendered)

\* C22: the events command function run twice on the same flags (with
\* --include-progress set or not) renders the same query text both times,
\* and rendering leaves the flags it reads as they were: with
\* --include-progress the event list is still the default list.
C22_RenderingIsPure ==
    /\ \A i, j \in DOMAIN Rendered : Rendered[i] = Rendered[j]
    /\ flags.includeProgress => flags.events = defaultEvents

\* the step in which the first response with errors (HasErrors) was handled
ErrorsReported == "queryErrors" \notin logged /\ "queryErrors" \in logged'

\* the page just received, when well formed, was handled as any page is: its
\* rows are appended, the "next" loop goes on if the page has a "next" link
\* and the loop is allowed, and else the rows are printed (listEvents) or the
\* blocker query comes next (listRecommendations); no error is returned
MainPageHandled ==
    LET p == pages'[Len(pages')]
        more == p.next /\ flags.count = NoCount /\ ~(cmd = "events" /\ flags.follow)
    IN  p.kind = "ok" =>
          /\ eventRows' = eventRows \o PageRows(p)
          /\ ret'.tag \in {"running", "nil"}
          /\ more => pc' = "mainNext"
          /\ (~more /\ cmd = "events") => output' = Append(output, Items(eventRows'))
          /\ (~more /\ cmd = "recommendations") => pc' = "startedExec"

\* the follow poll just answered, when well formed, was handled as any poll
\* is: its rows are printed and its dataset is sent back without an error
PollHandled ==
    \A k \in DOMAIN polls :
      (~polls[k].done /\ polls'[k].done /\ polls'[k].kind = "ok") =>
        LET rows == [i \in 1..polls'[k].n |-> <<served', i>>]
        IN  /\ output' = (IF rows # <<>> THEN Append(output, FollowItems(rows)) ELSE output)
            /\ \E i \in DOMAIN tasks' :
                  /\ tasks'[i].pc = "send"
                  /\ tasks'[i].out.err = ""
                  /\ tasks'[i].out.data_set.h = served'

\* C23: a response that reports errors (HasErrors) next to a well-formed page
\* is handled like the error-free response: the page's rows are extracted and
\* reach the output, pagination and following continue, and no error is
\* returned because of the reported errors.
C23_PartialErrorsNonFatal ==
    [][ErrorsReported => /\ (pages' # pages => MainPageHandled)
                         /\ PollHandled]_vars

\* three well-formed pages were printed in a run that logged reported errors
C23_ErrorsLoggedAllRowsPrinted ==
    /\ cmd = "events" /\ ~flags.follow /\ flags.optimizerId = "v"
    /\ "queryErrors" \in logged
    /\ WellFormedChain /\ Len(pages) = 3
    /\ pc = "done" /\ ret = Returned("nil")
    /\ output = <<Items(ConcatPages(pages))>>
    /\ Len(ConcatPages(pages)) > 3

\* the places of the result set in what was handed to the output package
Emitted == { k \in DOMAIN output : output[k].kind = "items" }

\* the result set is printed at most once and first of all, with the "next"
\* loop and the blocker join behind; a run that returns nil after a first
\* page with a nested dataset has printed it
PrintedOnceAfterFetch ==
    /\ Emitted \subseteq {1}
    /\ Emitted # {} => pc \in {"select", "done"}
    /\ (pc = "done" /\ ret.tag = "nil" /\ pages # <<>>
          /\ pages[1].kind \in {"ok", "nilDataSet"}) => Emitted = {1}

\* C24 as stated: the result set is printed exactly once, after pagination
\* and the blocker join, and a run in which any query, continuation or
\* extraction step returned an error has printed nothing.
C24_AllOrNothing ==
    /\ PrintedOnceAfterFetch
    /\ (pc = "done" /\ ret.tag \notin {"nil", "panic"}) => output = <<>>

\* C24, amended: the result set is printed exactly once, after pagination and
\* the blocker join, and a run that failed before its first follow poll has
\* printed nothing; a follow poll that fails does so after the result set
\* and the batches of earlier polls were printed.
C24_AllOrNothingBeforeFollow ==
    /\ PrintedOnceAfterFetch
    /\ (pc = "done" /\ ret.tag # "nil" /\ polls = <<>>) => output = <<>>

\* listRecommendations failed on the blocker query after three pages of
\* recommendations, and nothing was printed
C24_BlockerErrorPrintsNothing ==
    /\ cmd = "recommendations"
    /\ pc = "done" /\ ret.tag = "blockerData"
    /\ Len(pages) = 3 /\ Len(eventRows) > 3
    /\ output = <<>>

\* C25: followChan (capacity 1) never holds more than one result, and every
\* send on it, the seed and each goroutine's result, finds the channel empty:
\* a goroutine that has its result ready never waits for a slot, whatever
\* the order of the foreground, the goroutine and the signal, and also after
\* the command function returned on the interrupt.
C25_SendNeverBlocks ==
    [][/\ Len(followChan') <= ChanCap
       /\ Len(followChan') > Len(followChan) => followChan = <<>>
       /\ \A i \in DOMAIN tasks' : tasks'[i].pc = "send" => followChan' = <<>>]_vars

\* the command function returned on the interrupt, and the result of the
\* third poll was sent into the channel that nobody reads any more
C25_SentAfterCancel ==
    /\ Cancelled
    /\ tasks = <<>>
    /\ Len(polls) = 3
    /\ Len(followChan) = 1 /\ followChan[1].from = 3

\* the handle a poll result carries, by the rules of followDatasetAndPrint:
\* the seed carries the last page fetched before the loop, a poll answered
\* with nil main data carries what the result before it carried, and any
\* other poll that returns a result carries the dataset of its response
\* (0: a nil dataset)
RECURSIVE Carried(_)
Carried(j) ==
    IF j = 0 THEN LastPage.h
    ELSE IF polls[j].kind = "nilMain" THEN Carried(j - 1)
    ELSE polls[j].h

\* C26: every follow poll is issued on the handle carried by the result
\* received last: the handle the last well-formed poll response returned,
\* the handle before it when the response had nil main data, and the last
\* page of the initial fetch for the first poll; once the cursor has left a
\* handle, that handle is not polled again.
C26_CursorAdvances ==
    \A k \in DOMAIN polls :
      /\ polls[k].cause = k - 1
      /\ k > 1 => polls[k - 1].done
      /\ polls[k].on = Carried(k - 1)
      /\ \A i, j \in DOMAIN polls :
            (i < j /\ j < k /\ polls[k].on # 0 /\ polls[i].on = polls[k].on)
               => polls[j].on = polls[k].on

\* the first poll returned a page, the second had nil main data, and the
\* third was issued on the page of the first
C26_ThirdPollOnFirstPollsPage ==
    /\ Len(polls) = 3
    /\ polls[1].kind = "ok" /\ polls[1].n > 0
    /\ polls[2].kind = "nilMain"
    /\ polls[3].on = polls[1].h /\ polls[3].on > polls[1].on
    /\ polls[2].on = polls[3].on

=============================================================================
